---- MODULE Spec2Model ----
(***************************************************************************)
(* Model of the capa rule generator's text <-> tree converter              *)
(* (capa/ida/plugin/view.py) and of the rule overlap detector              *)
(* (scripts/detect_duplicate_features.py).                                 *)
(*                                                                         *)
(* Texts are TLA+ strings; a character is a string of length 1.  String    *)
(* positions are 1-based, and 0 stands for Python's "not found" (-1).      *)
(***************************************************************************)
EXTENDS Integers, Sequences, FiniteSets, TLC

----------------------------------------------------------------------------
(* Python str primitives used by the source *)

MinOf(S) == CHOOSE x \in S : \A y \in S : x <= y
MaxOf(S) == CHOOSE x \in S : \A y \in S : x >= y

\* s[i-1:j] of Python: empty when the range is, clipped to the string
Sub(s, i, j) ==
    LET a == IF i < 1 THEN 1 ELSE i
        b == IF j > Len(s) THEN Len(s) ELSE j
    IN  IF a > b THEN "" ELSE SubSeq(s, a, b)
Ch(s, i) == Sub(s, i, i)
From(s, i) == Sub(s, i, Len(s))
CharsOf(s) == {Ch(s, i) : i \in 1..Len(s)}

WhiteSpace == {" ", "\n", "\t"}
Letters == CharsOf("abcdefghijklmnopqrstuvwxyzABCDEFGHIJKLMNOPQRSTUVWXYZ")

OccursAt(s, p, i) == i >= 1 /\ i + Len(p) - 1 <= Len(s) /\ Sub(s, i, i + Len(p) - 1) = p
StartsWith(s, p) == OccursAt(s, p, 1)
StartsWithAny(s, ps) == \E p \in ps : StartsWith(s, p)
EndsWith(s, p) == Len(p) <= Len(s) /\ OccursAt(s, p, Len(s) - Len(p) + 1)

RECURSIVE FindFrom(_, _, _)
FindFrom(s, p, i) ==
    IF i + Len(p) - 1 > Len(s) THEN 0
    ELSE IF SubSeq(s, i, i + Len(p) - 1) = p THEN i
    ELSE FindFrom(s, p, i + 1)

\* str.find: position of the first occurrence, 0 when there is none
Find(s, p) == FindFrom(s, p, 1)

\* length of the run of characters of `chars` that starts at position i
RECURSIVE RunLen(_, _, _)
RunLen(s, i, chars) ==
    IF i > Len(s) \/ Ch(s, i) \notin chars THEN 0
    ELSE 1 + RunLen(s, i + 1, chars)

\* length of the run of characters of `chars` that ends at position i
RECURSIVE RunLenBack(_, _, _)
RunLenBack(s, i, chars) ==
    IF i < 1 \/ Ch(s, i) \notin chars THEN 0
    ELSE 1 + RunLenBack(s, i - 1, chars)

LStripChars(s, chars) == From(s, 1 + RunLen(s, 1, chars))
RStripChars(s, chars) == Sub(s, 1, Len(s) - RunLenBack(s, Len(s), chars))

LStrip(s) == LStripChars(s, WhiteSpace)
RStrip(s) == RStripChars(s, WhiteSpace)
Strip(s) == LStrip(RStrip(s))

\* str.partition: <<before, separator, after>>
PartitionAt(s, sep, i) ==
    IF i = 0 THEN <<s, "", "">>
    ELSE <<Sub(s, 1, i - 1), sep, From(s, i + Len(sep))>>

Partition(s, sep) == PartitionAt(s, sep, Find(s, sep))

\* str.splitlines
RECURSIVE SplitLines(_)
SplitLinesAt(s, i) ==
    IF i = 0 THEN <<s>>
    ELSE <<Sub(s, 1, i - 1)>> \o SplitLines(From(s, i + 1))

SplitLines(s) == IF s = "" THEN <<>> ELSE SplitLinesAt(s, Find(s, "\n"))

RECURSIVE Spaces(_)
Spaces(n) == IF n <= 0 THEN "" ELSE " " \o Spaces(n - 1)

----------------------------------------------------------------------------
(* The two regular expressions of the count syntax, matched as re.search   *)
(* matches them: leftmost start, every quantifier greedy.                  *)

\* "- count\(([a-zA-Z]+)\(" at position s with a name of n letters: the
\* position after the second "(", 0 when it does not match there
CountHeadOf(f, s, n) ==
    IF n >= 1 /\ Ch(f, s + 8 + n) = "(" THEN s + 8 + n + 1 ELSE 0

CountHead(f, s) ==
    IF ~OccursAt(f, "- count(", s) THEN 0
    ELSE CountHeadOf(f, s, RunLen(f, s + 8, Letters))

CountHeadName(f, s) == Sub(f, s + 8, s + 8 + RunLen(f, s + 8, Letters) - 1)

\* "(.+)\)\):\s*(.+)" from g3s on: the positions of a closing "))" that leave
\* a non-empty third group before it and a non-empty count after it
ParseCloses(f, g3s) == {c \in (g3s + 1)..(Len(f) - 3) : OccursAt(f, ")):", c)}

\* "\s+(.+)\)\):..." after an "=" at position e: the widths the second \s+ may take
ParseGaps(f, e) ==
    {w \in 1..RunLen(f, e + 1, WhiteSpace) : ParseCloses(f, e + w + 1) # {}}

\* "(.+)\s+=\s+..." from g2s on: the positions of "=" the match may use
ParseEquals(f, g2s) ==
    {e \in (g2s + 2)..Len(f) :
        /\ Ch(f, e) = "="
        /\ Ch(f, e - 1) \in WhiteSpace
        /\ ParseGaps(f, e) # {}}

\* "\s*(.+)" from position i on, where at least one character is left
CountText(f, i, ws) == From(f, IF i + ws > Len(f) THEN Len(f) ELSE i + ws)

DescriptionGroups(f, s, g2s, e, w, c) ==
    << CountHeadName(f, s),
       Sub(f, g2s, e - 2),
       Sub(f, e + w + 1, c - 1),
       CountText(f, c + 3, RunLen(f, c + 3, WhiteSpace)) >>

DescriptionGap(f, s, g2s, e, w) ==
    DescriptionGroups(f, s, g2s, e, w, MaxOf(ParseCloses(f, e + w + 1)))

DescriptionEqual(f, s, g2s, e) == DescriptionGap(f, s, g2s, e, MaxOf(ParseGaps(f, e)))

DescriptionStart(f, s, g2s) == DescriptionEqual(f, s, g2s, MaxOf(ParseEquals(f, g2s)))

DescriptionStarts(f, S) ==
    IF S = {} THEN <<>> ELSE DescriptionStart(f, MinOf(S), CountHead(f, MinOf(S)))

\* re.search(r"- count\(([a-zA-Z]+)\((.+)\s+=\s+(.+)\)\):\s*(.+)", f):
\* <<>> when there is no match, else <<name, value, description, count>>
CountDescriptionMatch(f) ==
    DescriptionStarts(f, {s \in 1..Len(f) : /\ CountHead(f, s) # 0
                                           /\ ParseEquals(f, CountHead(f, s)) # {}})

FormatCloses(f, g2s) == {c \in (g2s + 1)..(Len(f) - 4) : OccursAt(f, ")): ", c)}

FormatGroups(f, s, g2s, c) == << CountHeadName(f, s), Sub(f, g2s, c - 1), From(f, c + 4) >>

FormatStart(f, s, g2s) == FormatGroups(f, s, g2s, MaxOf(FormatCloses(f, g2s)))

FormatStarts(f, S) ==
    IF S = {} THEN <<>> ELSE FormatStart(f, MinOf(S), CountHead(f, MinOf(S)))

\* re.search(r"- count\(([a-zA-Z]+)\((.+)\)\): (.+)", f):
\* <<>> when there is no match, else <<name, value, count>>
CountMatch(f) ==
    FormatStarts(f, {s \in 1..Len(f) : /\ CountHead(f, s) # 0
                                      /\ FormatCloses(f, CountHead(f, s)) # {}})

----------------------------------------------------------------------------
(* Line classifier and serializer of one node *)

LevelOf(line, stripped) ==
    IF StartsWith(stripped, "description")
    THEN Len(From(line, 3)) - Len(stripped)
    ELSE Len(line) - Len(stripped)

calc_level_by_indent(line, prev_level) ==
    IF Len(Strip(line)) = 0 THEN prev_level ELSE LevelOf(line, LStrip(line))

StripAll(t) == << Strip(t[1]), Strip(t[2]), Strip(t[3]) >>

\* the count syntax: p is the line split at its first "#", m the match
CountFields(p, m) ==
    IF m # <<>>
    THEN << "- count(" \o m[1] \o "(" \o m[2] \o ")): " \o m[4], m[3], p[3] >>
    ELSE << p[1], "", p[3] >>

CountLine(p) == CountFields(p, CountDescriptionMatch(p[1]))

\* the general syntax: p is the line split at its first "#", q its head at "="
GeneralFields(p, q) == << q[1], q[3], p[3] >>

GeneralLine(p) == GeneralFields(p, Partition(p[1], "="))

\* parse_feature_for_node with every line taken for the general syntax
parse_general_feature(feature) ==
    IF ~StartsWith(feature, "#") THEN StripAll(GeneralLine(Partition(feature, "#")))
    ELSE StripAll(<<feature, "", "">>)

\* <<feature, description, comment>>
parse_feature_for_node(feature) ==
    IF StartsWith(feature, "- count") THEN StripAll(CountLine(Partition(feature, "#")))
    ELSE IF ~StartsWith(feature, "#") THEN StripAll(GeneralLine(Partition(feature, "#")))
    ELSE StripAll(<<feature, "", "">>)

ExpressionPrefixes == {"- and", "- or", "- optional", "- basic block", "- not"}

Terminated(display) == IF EndsWith(display, "\n") THEN display ELSE display \o "\n"

\* "feature [# comment]" and a description line two spaces deeper
TwoLines(d, feature, description, comment, dash) ==
    Spaces(d) \o feature \o (IF comment # "" THEN " # " \o comment ELSE "")
      \o "\n" \o Spaces(d + 2) \o dash \o "description: " \o description \o "\n"

\* CountDisplay without the case of string
CountDisplayInline(d, feature, description, comment, m) ==
    IF m = <<>> THEN ""
    ELSE Spaces(d) \o "- count(" \o m[1] \o "(" \o m[2] \o " = " \o description \o ")): " \o m[3]
           \o (IF comment # "" THEN " # " \o comment \o "\n" ELSE "")

CountDisplay(d, feature, description, comment, m) ==
    IF m = <<>> THEN ""
    ELSE IF m[1] = "string" THEN TwoLines(d, feature, description, comment, "")
    ELSE Spaces(d) \o "- count(" \o m[1] \o "(" \o m[2] \o " = " \o description \o ")): " \o m[3]
           \o (IF comment # "" THEN " # " \o comment \o "\n" ELSE "")

Display(d, feature, description, comment) ==
    IF StartsWith(feature, "#") THEN Spaces(d) \o feature \o "\n"
    ELSE IF description # ""
    THEN IF StartsWithAny(feature, ExpressionPrefixes)
         THEN TwoLines(d, feature, description, comment, "- ")
         ELSE IF StartsWith(feature, "- string")
         THEN TwoLines(d, feature, description, comment, "")
         ELSE IF StartsWith(feature, "- count")
         THEN CountDisplay(d, feature, description, comment, CountMatch(feature))
         ELSE Spaces(d) \o feature \o " = " \o description
                \o (IF comment # "" THEN " # " \o comment \o "\n" ELSE "")
    ELSE Spaces(d) \o feature \o (IF comment # "" THEN " # " \o comment \o "\n" ELSE "")

parse_node_for_feature(feature, description, comment, depth) ==
    Terminated(Display((depth * 2) + 4, feature, description, comment))

----------------------------------------------------------------------------
(* The editor's tree: QTreeWidgetItem objects in an arena.  Item i is       *)
(* nodes[i]; parent 0 is Python's None; `top` lists the widget's top-level  *)
(* items and `root` is CapaExplorerRulgenEditor.root (0 for None).          *)

VARIABLES rule_text, nodes, top, root, preview, raised, edits

editorVars == <<rule_text, nodes, top, root, preview, raised, edits>>

\* one line through parse_feature_for_node and parse_node_for_feature.
\* template: the tokens the line was written from, NoTemplate for any other line;
\* parsed: <<feature, description, comment>>, <<>> before the line is parsed
VARIABLES feature_line, template, parsed, item_depth, display_text

lineVars == <<feature_line, template, parsed, item_depth, display_text>>

\* detect_duplicate_features.py.
\* returned: the function that has returned ("" before any call); error: the
\* exception find_overlapping_rules raised ("" for none)
VARIABLES statement, flat_features, new_rule_path, new_rule_file, rules_path, ruleset,
          warnings, io, result, error, returned

overlapVars == <<statement, flat_features, new_rule_path, new_rule_file, rules_path, ruleset,
                 warnings, io, result, error, returned>>

vars == <<editorVars, lineVars, overlapVars>>

get_node_type_expression == 0
get_node_type_feature == 1
get_node_type_comment == 2

ExpressionTexts == {"- and:", "- or:", "- not:", "- basic block:", "- optional:"}

\* added_to is no attribute of the item: it records the parent add_node was
\* last called with for it (0: never)
NewItem(text, type, level) ==
    [text |-> text, capa_type |-> type, capa_level |-> level, parent |-> 0, children |-> <<>>,
     added_to |-> 0]

\* the item yaml_to_nodes yields for a line whose parsed texts are t
ItemOf(t, level) ==
    NewItem(t,
            IF StartsWithAny(t[1], ExpressionTexts) THEN get_node_type_expression
            ELSE IF StartsWith(t[1], "#") THEN get_node_type_comment
            ELSE get_node_type_feature,
            level)

yaml_item(line, level) ==
    ItemOf(parse_feature_for_node(Strip(line)), calc_level_by_indent(line, level))

RECURSIVE yaml_items(_, _)
yaml_items(lines, level) ==
    IF lines = <<>> THEN <<>>
    ELSE <<yaml_item(Head(lines), level)>> \o yaml_items(Tail(lines), level)

\* the items of the lines of s, in line order; `level` is never reassigned
yaml_to_nodes(s) ==
    LET level == 0
    IN  yaml_items(SplitLines(s), level)

RECURSIVE Range1(_, _)
Range1(a, b) == IF a > b THEN <<>> ELSE <<a>> \o Range1(a + 1, b)

childCount(arena, o) == Len(arena[o].children)

\* o.child(o.childCount() - 1): None when o has no child
last_child(arena, o) ==
    IF childCount(arena, o) = 0 THEN 0 ELSE arena[o].children[childCount(arena, o)]

setText(arena, o, column, v) ==
    [arena EXCEPT ![o].text = [@ EXCEPT ![column + 1] = v]]

addChild(arena, o, child) ==
    [arena EXCEPT ![o].children = Append(@, child), ![child].parent = o]

\* HoistToSibling without the test for a child
HoistToParent(arena, parent, v) == setText(arena, parent, 1, v)

\* a description line: its text goes to the last child of parent, or to parent
HoistToSibling(arena, parent, v) ==
    IF childCount(arena, parent) # 0
    THEN setText(arena, last_child(arena, parent), 1, v)
    ELSE setText(arena, parent, 1, v)

add_node_text(arena, parent, node, text0) ==
    IF StartsWith(text0, "description:")
    THEN HoistToSibling(arena, parent, LStrip(LStripChars(text0, CharsOf("description:"))))
    ELSE IF StartsWith(text0, "- description:")
    THEN setText(arena, parent, 1, LStrip(LStripChars(text0, CharsOf("- description:"))))
    ELSE addChild(arena, parent, node)

add_node(arena, parent, node) ==
    add_node_text([arena EXCEPT ![node].added_to = parent], parent, node, arena[node].text[1])

\* build(parent, nodes): the arena it leaves, and ok = FALSE when it raised
\* AttributeError on a parent that is None
RECURSIVE build(_, _, _), build_loop(_, _, _, _)
build(arena, parent, queue) ==
    IF queue = <<>> THEN [nodes |-> arena, queue |-> queue, ok |-> TRUE]
    ELSE build_loop(arena, parent, queue, arena[queue[1]].capa_level)

\* after the nested build returned r
build_resume(r, parent, child_lvl) ==
    IF r.ok THEN build_loop(r.nodes, parent, r.queue, child_lvl) ELSE r

\* build_ascend that moves up without adding the line
build_ascend_drop(arena, up, queue, child_lvl) ==
    build_loop(arena, up, Tail(queue), child_lvl)

\* the dedent step, up being the parent it moves to
build_ascend(arena, up, queue, child_lvl) ==
    build_loop(add_node(arena, up, Head(queue)), up, Tail(queue), child_lvl)

build_step(arena, parent, queue, child_lvl, lvl) ==
    IF lvl = child_lvl
    THEN IF parent = 0
         THEN [nodes |-> arena, queue |-> Tail(queue), ok |-> FALSE]
         ELSE build_loop(add_node(arena, parent, Head(queue)), parent, Tail(queue), child_lvl)
    ELSE IF lvl > child_lvl
    THEN build_resume(build(arena, last_child(arena, parent), queue), parent, child_lvl)
    ELSE build_ascend(arena,
                      IF arena[parent].parent # 0 THEN arena[parent].parent ELSE parent,
                      queue, child_lvl)

build_loop(arena, parent, queue, child_lvl) ==
    IF queue = <<>> THEN [nodes |-> arena, queue |-> queue, ok |-> TRUE]
    ELSE build_step(arena, parent, queue, child_lvl, arena[Head(queue)].capa_level)

\* QTreeWidgetItemIterator: the items below (and including) o, in pre-order
RECURSIVE SubtreeItems(_, _), ItemsOf(_, _)
SubtreeItems(arena, o) == <<o>> \o ItemsOf(arena, arena[o].children)
ItemsOf(arena, os) ==
    IF os = <<>> THEN <<>>
    ELSE SubtreeItems(arena, Head(os)) \o ItemsOf(arena, Tail(os))

iterate_tree(arena, tops) == ItemsOf(arena, tops)

RECURSIVE calc_item_depth(_, _)
calc_item_depth(arena, o) ==
    IF arena[o].parent = 0 THEN 0 ELSE 1 + calc_item_depth(arena, arena[o].parent)

RenderItem(arena, o, t) ==
    parse_node_for_feature(Strip(t[1]), Strip(t[2]), Strip(t[3]), calc_item_depth(arena, o))

RECURSIVE RenderItems(_, _)
RenderItems(arena, os) ==
    IF os = <<>> THEN ""
    ELSE RenderItem(arena, Head(os), arena[Head(os)].text) \o RenderItems(arena, Tail(os))

\* PreviewHead that appends to the text as it is when there is no marker
PreviewHeadUntrimmed(text, i) ==
    IF i # 0 THEN Sub(text, 1, i + Len("features:") - 1) \o "\n"
    ELSE text \o "\n  features:\n"

PreviewHead(text, i) ==
    IF i # 0 THEN Sub(text, 1, i + Len("features:") - 1) \o "\n"
    ELSE RStrip(text) \o "\n  features:\n"

\* the text update_preview puts in the preview
update_preview(arena, tops, text) ==
    PreviewHead(text, Find(text, "features:")) \o RenderItems(arena, iterate_tree(arena, tops))

----------------------------------------------------------------------------
(* Rule texts given to the editor *)

MaxStructLines == 5
MaxMixedLines == 4
MaxShortLines == 2

Header == "rule:\n  features:\n"

RECURSIVE SeqsOfLen(_, _)
SeqsOfLen(S, n) ==
    IF n <= 0 THEN {<<>>}
    ELSE {<<x>> \o q : x \in S, q \in SeqsOfLen(S, n - 1)}

SeqsUpTo(S, n) == UNION {SeqsOfLen(S, k) : k \in 0..n}

\* a line is <<number of leading spaces, content>>
RECURSIVE RenderLines(_)
RenderLines(ls) ==
    IF ls = <<>> THEN ""
    ELSE Spaces(Head(ls)[1]) \o Head(ls)[2] \o "\n" \o RenderLines(Tail(ls))

DocumentsOf(firsts, rests, n) ==
    {Header \o RenderLines(<<f>> \o r) : f \in firsts, r \in SeqsUpTo(rests, n - 1)}

\* nested expressions and features at any indentation
StructDocuments ==
    DocumentsOf({<<4, "- or:">>},
                ({6, 8, 10} \X {"- and:"}) \cup ({6, 8} \X {"- api: f"}),
                MaxStructLines)

\* description lines, strings, comments and blank lines among them
MixedDocuments ==
    DocumentsOf({<<4, "- or:">>},
                ({6, 8} \X {"- and:", "- string: s", "description: key", "- description: wrap"})
                    \cup {<<6, "# c">>, <<0, "">>},
                MaxMixedLines)

\* any kind of line first
ShortDocuments ==
    DocumentsOf({4} \X {"- api: f", "description: key", "- description: wrap", "# c"},
                {6} \X {"- and:", "- api: f"}, MaxShortLines)

\* no feature section at all
EmptyDocuments == {"", "rule:\n  meta:\n", "rule:\n  features:\n", "  features:  \n\n"}

MaxPreviewLines == 3

\* counted features, strings and descriptions, loaded into an editor whose
\* preview already shows a text
PreviewDocuments ==
    DocumentsOf({<<4, "- or:">>},
                {6, 8} \X {"- and:", "- count(api(f)):", "description: key", "- string: s = d # c"},
                MaxPreviewLines)
      \cup {"", "rule:\n  meta:\n"}

\* what the preview widget may show when the editor is made
PreviewTexts ==
    {"", "rule:\n  meta:\n \n", "features:", "rule:\n  features:\n    - old:\n",
     "a features: b\n  features:\n"}

MaxDescriptionLines == 3

\* description lines whose text starts with letters of the word description,
\* with and without a space after the colon
DescriptionDocuments ==
    DocumentsOf({<<4, "- or:">>},
                {6, 8} \X {"- and:", "description: test", "description:test", "- description: test",
                           "- description: encrypt data", "description: description of x",
                           "- description:wrap"},
                MaxDescriptionLines)

LoadDocuments == StructDocuments \cup MixedDocuments \cup ShortDocuments \cup EmptyDocuments

----------------------------------------------------------------------------
(* Editor operations *)

\* load_features_from_yaml up to its return or to the exception build raises
load_features_from_yaml(text) ==
    LET i == Find(text, "features:")
        rule_features == Strip(From(text, i + Len("features:")))
        rule_nodes == yaml_to_nodes(rule_features)
        none == [nodes |-> <<>>, top |-> <<>>, root |-> 0, ok |-> TRUE]
    IN  IF i = 0 THEN none
        ELSE IF rule_nodes = <<>> THEN none
        ELSE LET b == build(rule_nodes, 1, Range1(2, Len(rule_nodes)))
             IN  [nodes |-> b.nodes, top |-> <<1>>, root |-> 1, ok |-> b.ok]

LoadFeaturesFromYaml(flag) ==
    \E r \in {load_features_from_yaml(rule_text)} :
        /\ nodes' = r.nodes
        /\ top' = r.top
        /\ root' = r.root
        /\ raised' = IF r.ok THEN "" ELSE "AttributeError"
        /\ preview' = IF flag /\ r.root # 0 THEN rule_text ELSE preview
        /\ UNCHANGED <<rule_text, edits, lineVars, overlapVars>>

UpdatePreview ==
    /\ preview' = update_preview(nodes, top, preview)
    /\ UNCHANGED <<rule_text, nodes, top, root, raised, edits, lineVars, overlapVars>>

----------------------------------------------------------------------------
(* Editing the tree *)

MaxEdits == 2
MaxEditLines == 3
MaxNewFeatures == 2
MaxSelected == 2

UpperCase == "ABCDEFGHIJKLMNOPQRSTUVWXYZ"
LowerCase == "abcdefghijklmnopqrstuvwxyz"

RECURSIVE Lower(_)
Lower(s) ==
    IF s = "" THEN ""
    ELSE LET i == Find(UpperCase, Ch(s, 1))
         IN  (IF i = 0 THEN Ch(s, 1) ELSE Ch(LowerCase, i)) \o Lower(From(s, 2))

\* QTreeWidgetItem(parent) with its texts set: the new item is the arena's last
new_node(arena, parent, values, type) ==
    LET o == Len(arena) + 1
        item == [NewItem(<<values[1], values[2], "">>, type, -1) EXCEPT !.parent = parent]
    IN  IF parent = 0 THEN Append(arena, item)
        ELSE [Append(arena, item) EXCEPT ![parent].children = Append(@, o)]

\* o.parent().takeChild(o.parent().indexOfChild(o)), o.parent().removeChild(o)
takeChild(arena, o) ==
    LET p == arena[o].parent
    IN  [arena EXCEPT ![p].children = SelectSeq(@, LAMBDA c : c # o), ![o].parent = 0]

\* Counter(features): the distinct features in order of first occurrence
RECURSIVE CounterKeys(_, _)
CounterKeys(features, seen) ==
    IF features = <<>> THEN <<>>
    ELSE IF Head(features) \in seen THEN CounterKeys(Tail(features), seen)
    ELSE <<Head(features)>> \o CounterKeys(Tail(features), seen \cup {Head(features)})

CounterValue(features, k) == Cardinality({i \in DOMAIN features : features[i] = k})

\* the texts of the feature nodes update_features adds, in order
NewFeatureTexts(features) ==
    LET keys == CounterKeys(features, {})
        single(k) == "- " \o Lower(k.name) \o ": " \o k.value
        counted(k) == "- count(" \o k.name \o "(" \o k.value \o ")): "
                        \o ToString(CounterValue(features, k))
        ones == SelectSeq(keys, LAMBDA k : CounterValue(features, k) = 1)
        many == SelectSeq(keys, LAMBDA k : CounterValue(features, k) > 1)
    IN  [i \in 1..Len(ones) |-> single(ones[i])] \o [i \in 1..Len(many) |-> counted(many[i])]

RECURSIVE new_feature_nodes(_, _, _)
new_feature_nodes(arena, parent, texts) ==
    IF texts = <<>> THEN arena
    ELSE new_feature_nodes(new_node(arena, parent, <<Head(texts), "">>, get_node_type_feature),
                           parent, Tail(texts))

update_features(arena, tops, rt, features) ==
    LET made == rt = 0
        a1 == IF made THEN new_node(arena, 0, <<"- or:", "">>, get_node_type_expression)
              ELSE arena
        r1 == IF made THEN Len(a1) ELSE rt
        t1 == IF made THEN Append(tops, r1) ELSE tops
    IN  [nodes |-> new_feature_nodes(a1, r1, NewFeatureTexts(features)),
         top |-> t1, root |-> r1, ok |-> TRUE]

\* get_features(selected=True): the selected feature and comment items, in tree order
get_features(arena, tops, selected) ==
    SelectSeq(iterate_tree(arena, tops),
              LAMBDA o : /\ arena[o].capa_type \in {get_node_type_feature, get_node_type_comment}
                         /\ o \in selected)

\* the loop of slot_nest_features: ok = FALSE when o.parent() is None
RECURSIVE nest_into(_, _, _)
nest_into(arena, new_parent, os) ==
    IF os = <<>> THEN [nodes |-> arena, ok |-> TRUE]
    ELSE IF arena[Head(os)].parent = 0 THEN [nodes |-> arena, ok |-> FALSE]
    ELSE nest_into(addChild(takeChild(arena, Head(os)), new_parent, Head(os)), new_parent, Tail(os))

slot_nest_features(arena, tops, rt, expression, selected) ==
    LET a1 == new_node(arena, rt, <<expression, "">>, get_node_type_expression)
        r  == nest_into(a1, Len(a1), get_features(a1, tops, selected))
    IN  [nodes |-> r.nodes, top |-> tops, root |-> rt, ok |-> r.ok]

RECURSIVE slot_remove_selected(_, _, _, _)
slot_remove_selected(arena, tops, rt, os) ==
    IF os = <<>> THEN [nodes |-> arena, top |-> tops, root |-> rt, ok |-> TRUE]
    ELSE LET o == Head(os)
         IN  IF o = rt
             THEN slot_remove_selected(arena, SelectSeq(tops, LAMBDA t : t # o), 0, Tail(os))
             ELSE slot_remove_selected(takeChild(arena, o), tops, rt, Tail(os))

RECURSIVE SetToSeq(_)
SetToSeq(S) == IF S = {} THEN <<>> ELSE <<MinOf(S)>> \o SetToSeq(S \ {MinOf(S)})

TreeItems == {iterate_tree(nodes, top)[i] : i \in 1..Len(iterate_tree(nodes, top))}

Selections == {S \in SUBSET TreeItems : Cardinality(S) <= MaxSelected}

\* the expressions chosen from the context menus
MenuExpressions == {"- and:", "- not:"}

FeatureObjects == {[name |-> "api", value |-> "f"], [name |-> "number", value |-> "5"]}

\* the editor after a handler that ended with r (and, unless it raised, update_preview)
Edited(r, refresh) ==
    /\ nodes' = r.nodes
    /\ top' = r.top
    /\ root' = r.root
    /\ raised' = IF r.ok THEN "" ELSE "AttributeError"
    /\ preview' = IF r.ok /\ refresh THEN update_preview(r.nodes, r.top, preview) ELSE preview
    /\ edits' = edits + 1
    /\ UNCHANGED <<rule_text, lineVars, overlapVars>>

UpdateFeatures(features) ==
    /\ edits < MaxEdits
    /\ \E r \in {update_features(nodes, top, root, features)} :
          Edited(r, TRUE)

\* slot_custom_context_menu_requested on an item of the tree, "Nest features" chosen
MenuNestFeatures(expression, selected) ==
    /\ edits < MaxEdits
    /\ \E o \in TreeItems : nodes[o].capa_type # get_node_type_expression
    /\ \E r \in {slot_nest_features(nodes, top, root, expression, selected)} : Edited(r, TRUE)

\* slot_custom_context_menu_requested on an item of the tree, "Remove" chosen
MenuRemoveSelected(selected) ==
    /\ edits < MaxEdits
    /\ TreeItems # {}
    /\ \E r \in {slot_remove_selected(nodes, top, root, SetToSeq(selected))} : Edited(r, TRUE)

\* slot_custom_context_menu_requested on an expression, "Modify" chosen
MenuEditExpression(o, expression) ==
    /\ edits < MaxEdits
    /\ o \in TreeItems
    /\ nodes[o].capa_type = get_node_type_expression
    /\ \E r \in {[nodes |-> setText(nodes, o, 0, expression), top |-> top, root |-> root, ok |-> TRUE]} :
          Edited(r, TRUE)

\* slot_custom_context_menu_requested outside the items, "Remove all" chosen
MenuClearAll ==
    /\ edits < MaxEdits
    /\ \E r \in {[nodes |-> <<>>, top |-> <<>>, root |-> 0, ok |-> TRUE]} : Edited(r, TRUE)

----------------------------------------------------------------------------
(* One line through parse_feature_for_node and back through                 *)
(* parse_node_for_feature                                                   *)

MaxDepth == 2

CountNames == {"number", "string", "api"}
CountValues == {"5", "a b", "f(x)", "x=y"}
CountDescriptions == {"desc", "two words"}
CountCounts == {"3", "(2, 4)"}
CountComments == {"", "note", "see #1"}

CountTemplates ==
    [name : CountNames, value : CountValues, description : CountDescriptions,
     count : CountCounts, comment : CountComments]

NoTemplate == [name |-> "", value |-> "", description |-> "", count |-> "", comment |-> ""]

\* "- count(<name>(<value> = <description>)): <count> # <comment>"
TemplateLine(t) ==
    "- count(" \o t.name \o "(" \o t.value \o " = " \o t.description \o ")): " \o t.count
      \o (IF t.comment # "" THEN " # " \o t.comment ELSE "")

\* lines that start with "- count" and were written from no template
CountLikeLines ==
    {"- count(number(5)): 3", "- count(number(5)): 3 # note", "- count(api(f)): 2 or more",
     "- count", "- counter: 1 # c", "- count(5 = d): 3 # c", "- count(number(5 =d)): 3",
     "- count(number(5=d)): 3", "- count(string(s)): 1 #", "- count(number(5 = d)):",
     "- count(number(5 = d)) # c"}

\* lines of the general syntax
GeneralLines ==
    {"- api: f", "- api: f = d", "- api: f = d # c", "- string: s = d # c", "- and:",
     "- or: = d", "# c", "# c = d # e", "description: key", "- description: wrap", ""}

LinesInit ==
    /\ template \in CountTemplates \cup {NoTemplate}
    /\ feature_line \in IF template # NoTemplate THEN {TemplateLine(template)}
                ELSE CountLikeLines \cup GeneralLines
    /\ parsed = <<>>
    /\ item_depth = 0
    /\ display_text = ""

\* the texts of an item as update_preview reads them: a feature as parsed,
\* typed or made by update_features, a description hoisted or typed, a comment
NodeFeatures ==
    {"- api: f", "- string: s", "- and:", "- basic block:", "- count(number(5)): 3",
     "- count(string(s)): 1", "- count(api(f)):", "- count", "- counter: 1", ""}
NodeDescriptions == {"", "key", "two words"}
NodeComments == {"", "note"}

NodesInit ==
    /\ template = NoTemplate
    /\ feature_line = ""
    /\ parsed \in NodeFeatures \X NodeDescriptions \X NodeComments
    /\ item_depth = 0
    /\ display_text = ""

LinesIdle ==
    /\ feature_line = ""
    /\ template = NoTemplate
    /\ parsed = <<>>
    /\ item_depth = 0
    /\ display_text = ""

ParseFeatureForNode ==
    /\ parsed' = parse_feature_for_node(feature_line)
    /\ UNCHANGED <<feature_line, template, item_depth, display_text, editorVars, overlapVars>>

ParseNodeForFeature(d) ==
    /\ parsed # <<>>
    /\ display_text' = parse_node_for_feature(parsed[1], parsed[2], parsed[3], d)
    /\ item_depth' = d
    /\ UNCHANGED <<feature_line, template, parsed, editorVars, overlapVars>>

----------------------------------------------------------------------------
(* detect_duplicate_features.py.  A statement of capa.engine is a record:    *)
(* And, Or and Some have `children`, Not, Subscope and Range have `child`,  *)
(* and any other statement is a feature, compared by value.                 *)

Combinators == {"And", "Or", "Some"}
Wrappers == {"Subscope", "Range", "Not"}

Feature(v) == [kind |-> "Feature", value |-> v]
Combinator(k, children) == [kind |-> k, children |-> children]
Wrapper(k, child) == [kind |-> k, child |-> child]

RECURSIVE get_child_features(_), extend_children(_)

\* get_child_features without Not among the statements with a child
get_child_features_not(feature) ==
    IF feature.kind \in Combinators THEN extend_children(feature.children)
    ELSE IF feature.kind \in Wrappers \ {"Not"} THEN get_child_features(feature.child)
    ELSE <<feature>>

get_child_features(feature) ==
    IF feature.kind \in Combinators THEN extend_children(feature.children)
    ELSE IF feature.kind \in Wrappers THEN get_child_features(feature.child)
    ELSE <<feature>>

\* the loop over feature.children, extending the list with each child's features
extend_children(children) ==
    IF children = <<>> THEN <<>>
    ELSE get_child_features(Head(children)) \o extend_children(Tail(children))

\* a rule file: whether capa.rules.Rule.from_yaml accepts it, and the statement
\* of the rule it gives
RuleFile(parses, st) == [parses |-> parses, statement |-> st]

\* get_features that returns the empty list for a file that does not parse
get_features_quiet(file) ==
    IF file.parses THEN [feature_list |-> get_child_features(file.statement), ok |-> TRUE]
    ELSE [feature_list |-> <<>>, ok |-> TRUE]

\* get_features(rule_path): the list, and ok = FALSE when it raised Warning
get_features_of(file) ==
    IF file.parses THEN [feature_list |-> get_child_features(file.statement), ok |-> TRUE]
    ELSE [feature_list |-> <<>>, ok |-> FALSE]

\* the loop over ruleset.rules.items(): a rule is <<rule_name, statement>>
RECURSIVE check_rules(_, _, _, _)

\* check_rule with all() for any()
check_rule_all(rules, new_rule_features, overlapping_rules, count, rule_features) ==
    IF Len(rule_features) = 0
    THEN check_rules(Tail(rules), new_rule_features, overlapping_rules, count)
    ELSE check_rules(Tail(rules), new_rule_features,
                     IF \A i \in DOMAIN new_rule_features :
                            \E j \in DOMAIN rule_features : new_rule_features[i] = rule_features[j]
                     THEN Append(overlapping_rules, Head(rules)[1])
                     ELSE overlapping_rules,
                     count + 1)

\* check_rule that counts the rule before it looks at its features
check_rule_count_first(rules, new_rule_features, overlapping_rules, count, rule_features) ==
    IF Len(rule_features) = 0
    THEN check_rules(Tail(rules), new_rule_features, overlapping_rules, count + 1)
    ELSE check_rules(Tail(rules), new_rule_features,
                     IF \E i \in DOMAIN new_rule_features :
                            \E j \in DOMAIN rule_features : new_rule_features[i] = rule_features[j]
                     THEN Append(overlapping_rules, Head(rules)[1])
                     ELSE overlapping_rules,
                     count + 1)

\* check_rule that asks for every feature of the rule among those of the new rule
check_rule_subset(rules, new_rule_features, overlapping_rules, count, rule_features) ==
    IF Len(rule_features) = 0
    THEN check_rules(Tail(rules), new_rule_features, overlapping_rules, count)
    ELSE check_rules(Tail(rules), new_rule_features,
                     IF \A j \in DOMAIN rule_features :
                            \E i \in DOMAIN new_rule_features : new_rule_features[i] = rule_features[j]
                     THEN Append(overlapping_rules, Head(rules)[1])
                     ELSE overlapping_rules,
                     count + 1)

check_rule(rules, new_rule_features, overlapping_rules, count, rule_features) ==
    IF Len(rule_features) = 0
    THEN check_rules(Tail(rules), new_rule_features, overlapping_rules, count)
    ELSE check_rules(Tail(rules), new_rule_features,
                     IF \E i \in DOMAIN new_rule_features :
                            \E j \in DOMAIN rule_features : new_rule_features[i] = rule_features[j]
                     THEN Append(overlapping_rules, Head(rules)[1])
                     ELSE overlapping_rules,
                     count + 1)

check_rules(rules, new_rule_features, overlapping_rules, count) ==
    IF rules = <<>> THEN [overlapping_rules |-> overlapping_rules, count |-> count]
    ELSE check_rule(rules, new_rule_features, overlapping_rules, count,
                    get_child_features(Head(rules)[2]))

NoResult == [overlapping_rules |-> <<>>, count |-> -1]

\* capa.main.get_rules(rules_path): a candidate is <<rule_name, rule file>>;
\* the rules of the files that parse, in order, and a warning with the path
\* and the cause for each file that does not
RECURSIVE get_rules(_)
get_rules(paths) ==
    IF paths = <<>> THEN [rules |-> <<>>, warnings |-> <<>>]
    ELSE IF Head(paths)[2].parses
    THEN [rules |-> <<<<Head(paths)[1], Head(paths)[2].statement>>>> \o get_rules(Tail(paths)).rules,
          warnings |-> get_rules(Tail(paths)).warnings]
    ELSE [rules |-> get_rules(Tail(paths)).rules,
          warnings |-> <<[path |-> Head(paths)[1] \o ".yml", cause |-> "InvalidRule"]>>
                         \o get_rules(Tail(paths)).warnings]

\* nothing loaded: the state of a call that raised before get_rules
NotLoaded == [rules |-> <<>>, warnings |-> <<>>]

\* find_overlapping_rules that reads the new rule before it looks at its name
find_overlapping_features_late(path, new_rule_features, loaded) ==
    IF ~new_rule_features.ok
    THEN [result |-> NoResult, raised |-> "Warning", io |-> <<"open " \o path>>,
          loaded |-> NotLoaded]
    ELSE IF ~EndsWith(path, ".yml")
    THEN [result |-> NoResult, raised |-> "FileNotFoundError", io |-> <<"open " \o path>>,
          loaded |-> NotLoaded]
    ELSE [result |-> check_rules(loaded.rules, new_rule_features.feature_list, <<>>, 0),
          raised |-> "", io |-> <<"open " \o path, "get_rules">>, loaded |-> loaded]

\* what find_overlapping_rules returns, or the exception it raises, with the
\* files it opened and the rule set it loaded on the way
find_overlapping_features(path, new_rule_features, loaded) ==
    IF ~EndsWith(path, ".yml")
    THEN [result |-> NoResult, raised |-> "FileNotFoundError", io |-> <<>>, loaded |-> NotLoaded]
    ELSE IF ~new_rule_features.ok
    THEN [result |-> NoResult, raised |-> "Warning", io |-> <<"open " \o path>>,
          loaded |-> NotLoaded]
    ELSE [result |-> check_rules(loaded.rules, new_rule_features.feature_list, <<>>, 0),
          raised |-> "", io |-> <<"open " \o path, "get_rules">>, loaded |-> loaded]

find_overlapping_rules(path, file, paths) ==
    find_overlapping_features(path, get_features_of(file), get_rules(paths))

MaxTreeDepth == 2
MaxChildren == 2
MaxRules == 2

FlatValues == {"api: CreateFileA", "mutex: foo"}
OverlapValues == {"mutex: foo", "api: CreateFileA", "api: WriteFile"}

\* the statements one level deeper than those of S
StatementsOver(S) ==
    S \cup {Combinator(k, c) : k \in Combinators, c \in SeqsUpTo(S, MaxChildren)}
      \cup {Wrapper(k, t) : k \in Wrappers, t \in S}

RECURSIVE Statements(_, _)
Statements(values, d) ==
    IF d = 0 THEN {Feature(v) : v \in values}
    ELSE StatementsOver(Statements(values, d - 1))

\* the statements of the rules given to the overlap detector
RuleStatements ==
    {Feature(v) : v \in OverlapValues}
      \cup {Combinator("And", <<Feature(a), Wrapper("Not", Feature(b))>>) :
                a \in OverlapValues, b \in OverlapValues}
      \cup {Combinator("Or", <<>>)}

RuleNames == <<"X", "Y", "Z">>

RuleFiles ==
    {RuleFile(TRUE, st) : st \in RuleStatements} \cup {RuleFile(FALSE, Combinator("Or", <<>>))}

\* n candidate rule files, named in the order of RuleNames
RulesPaths(n) == {[i \in 1..n |-> <<RuleNames[i], fs[i]>>] : fs \in SeqsOfLen(RuleFiles, n)}

RulePaths == {"new.yml", "new.yaml", "new.yml.txt"}

OverlapInit(statements, paths, files, candidates) ==
    /\ statement \in statements
    /\ flat_features = <<>>
    /\ new_rule_path \in paths
    /\ new_rule_file \in files
    /\ rules_path \in candidates
    /\ ruleset = <<>>
    /\ warnings = <<>>
    /\ io = <<>>
    /\ result = NoResult
    /\ error = ""
    /\ returned = ""

NoStatement == Combinator("Or", <<>>)

OverlapIdle == OverlapInit({NoStatement}, {""}, {RuleFile(FALSE, NoStatement)}, {<<>>})

GetChildFeatures ==
    /\ flat_features' = get_child_features(statement)
    /\ returned' = "get_child_features"
    /\ UNCHANGED <<statement, new_rule_path, new_rule_file, rules_path, ruleset, warnings, io,
                   result, error, editorVars, lineVars>>

FindOverlappingRules ==
    \E r \in {find_overlapping_rules(new_rule_path, new_rule_file, rules_path)} :
        /\ result' = r.result
        /\ error' = r.raised
        /\ io' = r.io
        /\ ruleset' = r.loaded.rules
        /\ warnings' = r.loaded.warnings
        /\ returned' = "find_overlapping_rules"
        /\ UNCHANGED <<statement, flat_features, new_rule_path, new_rule_file, rules_path,
                       editorVars, lineVars>>

----------------------------------------------------------------------------
(* Specifications *)

EditorInit(documents) ==
    /\ rule_text \in documents
    /\ nodes = <<>>
    /\ top = <<>>
    /\ root = 0
    /\ preview = ""
    /\ raised = ""
    /\ edits = 0

\* loading rule texts and regenerating the preview
InitLoad == EditorInit(LoadDocuments) /\ LinesIdle /\ OverlapIdle

NextLoad ==
    \/ \E flag \in BOOLEAN : LoadFeaturesFromYaml(flag)
    \/ UpdatePreview

SpecLoad == InitLoad /\ [][NextLoad]_vars

EditDocuments ==
    DocumentsOf({<<4, "- or:">>},
                ({6, 8} \X {"- and:", "- api: f"}) \cup {<<6, "# c">>},
                MaxEditLines)
      \cup ShortDocuments \cup EmptyDocuments

\* loading rule texts and editing the tree through the menus
InitEdit == EditorInit(EditDocuments) /\ LinesIdle /\ OverlapIdle

NextEdit ==
    \/ \E flag \in BOOLEAN : LoadFeaturesFromYaml(flag)
    \/ UpdatePreview
    \/ \E fs \in SeqsUpTo(FeatureObjects, MaxNewFeatures) : UpdateFeatures(fs)
    \/ \E e \in MenuExpressions, S \in Selections : MenuNestFeatures(e, S)
    \/ \E S \in Selections : MenuRemoveSelected(S)
    \/ \E o \in TreeItems, e \in MenuExpressions : MenuEditExpression(o, e)
    \/ MenuClearAll

SpecEdit == InitEdit /\ [][NextEdit]_vars

\* single lines parsed and serialized
InitLines == EditorInit({""}) /\ LinesInit /\ OverlapIdle

NextLines ==
    \/ ParseFeatureForNode
    \/ \E d \in 0..MaxDepth : ParseNodeForFeature(d)

SpecLines == InitLines /\ [][NextLines]_vars

\* loading rule texts with description lines of many texts
InitDescriptions == EditorInit(DescriptionDocuments) /\ LinesIdle /\ OverlapIdle

SpecDescriptions == InitDescriptions /\ [][NextLoad]_vars

\* loading rule texts and regenerating a preview that shows some text already
InitPreview ==
    /\ rule_text \in PreviewDocuments
    /\ nodes = <<>>
    /\ top = <<>>
    /\ root = 0
    /\ preview \in PreviewTexts
    /\ raised = ""
    /\ edits = 0
    /\ LinesIdle
    /\ OverlapIdle

SpecPreview == InitPreview /\ [][NextLoad]_vars

\* items serialized, whatever their texts
InitNodes == EditorInit({""}) /\ NodesInit /\ OverlapIdle

NextNodes == \E d \in 0..MaxDepth : ParseNodeForFeature(d)

SpecNodes == InitNodes /\ [][NextNodes]_vars

\* statements flattened
InitFlat ==
    /\ EditorInit({""})
    /\ LinesIdle
    /\ OverlapInit(Statements(FlatValues, MaxTreeDepth), {""}, {RuleFile(FALSE, NoStatement)},
                   {<<>>})

SpecFlat == InitFlat /\ [][GetChildFeatures]_vars

\* a new rule compared with a rule set
InitOverlap ==
    /\ EditorInit({""})
    /\ LinesIdle
    /\ OverlapInit({NoStatement}, RulePaths, RuleFiles,
                   UNION {RulesPaths(n) : n \in 0..MaxRules})

SpecOverlap == InitOverlap /\ [][FindOverlappingRules]_vars

----------------------------------------------------------------------------
(* Properties of the loader.  After load_features_from_yaml item k of the   *)
(* arena is the item of line k of the feature section.                      *)

\* the tree is the one load_features_from_yaml built, and it did not raise
Loaded == root # 0 /\ raised = ""

IsBlankItem(k) == nodes[k].text = <<"", "", "">>

IsDescriptionItem(k) ==
    \/ StartsWith(nodes[k].text[1], "description:")
    \/ StartsWith(nodes[k].text[1], "- description:")

\* line k made a node of the tree
IsNodeLine(k) == ~IsBlankItem(k) /\ ~IsDescriptionItem(k)

\* the text after "features:"
Section(text) == From(text, Find(text, "features:") + Len("features:"))

\* the lines of the feature section as written, after the line of "features:"
SectionLines(text) == Tail(SplitLines(Section(text)))

Indent(l) == RunLen(l, 1, {" "})

\* the lines before line k that own the lines indented deeper than d
Owners(ls, k, d) ==
    {j \in 1..(k - 1) : /\ ~StartsWith(Strip(ls[j]), "description:")
                        /\ ~StartsWith(Strip(ls[j]), "- description:")
                        /\ Indent(ls[j]) < d}

CanonicalLine(ls, k, c, d) ==
    /\ c # ""
    /\ IF StartsWith(c, "description:")
       THEN StartsWith(Strip(ls[k - 1]), "- string") /\ d = Indent(ls[k - 1]) + 2
       ELSE IF StartsWith(c, "- description:")
       THEN StartsWithAny(Strip(ls[k - 1]), ExpressionTexts) /\ d = Indent(ls[k - 1]) + 2
       ELSE /\ Owners(ls, k, d) # {}
            /\ StartsWithAny(Strip(ls[MaxOf(Owners(ls, k, d))]), ExpressionTexts)
            /\ d = Indent(ls[MaxOf(Owners(ls, k, d))]) + 2

\* root line at 4 spaces, each nesting level 2 spaces deeper, a description
\* line 2 spaces deeper than the line that owns it
Canonical(ls) ==
    /\ ls # <<>>
    /\ Indent(ls[1]) = 4
    /\ Strip(ls[1]) # ""
    /\ ~StartsWith(Strip(ls[1]), "description:")
    /\ ~StartsWith(Strip(ls[1]), "- description:")
    /\ \A k \in 2..Len(ls) : CanonicalLine(ls, k, Strip(ls[k]), Indent(ls[k]))

\* C1: a canonically indented rule text that was loaded (into the preview too)
\* is regenerated by update_preview with the same feature section
C1_RoundTrip ==
    (Loaded /\ preview = rule_text /\ Canonical(SectionLines(rule_text)))
        => Section(update_preview(nodes, top, preview)) = Section(rule_text)

\* o and the items above it, nearest first
RECURSIVE AncestorsOf(_)
AncestorsOf(o) == IF o = 0 THEN <<>> ELSE <<o>> \o AncestorsOf(nodes[o].parent)

\* the ancestors of the line before k that had a child at the depth of line k
\* when line k was reached
MatchingAncestors(k) ==
    SelectSeq(AncestorsOf(nodes[k - 1].parent),
              LAMBDA a : \E i \in DOMAIN nodes[a].children :
                            /\ nodes[a].children[i] < k
                            /\ nodes[nodes[a].children[i]].capa_level = nodes[k].capa_level)

ImmediateParent(o) == IF nodes[o].parent # 0 THEN nodes[o].parent ELSE o

\* C2: a line less deep than the line before it is attached to the nearest
\* ancestor whose children are at the line's depth, and to the immediate
\* parent when there is no such ancestor
C2_DedentToMatchingAncestor ==
    Loaded =>
        \A k \in 3..Len(nodes) :
            (/\ IsNodeLine(k) /\ IsNodeLine(k - 1)
             /\ nodes[k].capa_level < nodes[k - 1].capa_level)
                => nodes[k].parent = IF MatchingAncestors(k) # <<>>
                                     THEN Head(MatchingAncestors(k))
                                     ELSE ImmediateParent(nodes[k - 1].parent)

\* C3: a line deeper than the node line before it is attached as a child of
\* the node of that line, wherever in the text it stands
C3_IndentUnderPrevious ==
    Loaded =>
        \A k \in 2..Len(nodes) :
            (/\ IsNodeLine(k) /\ IsNodeLine(k - 1)
             /\ nodes[k].capa_level > nodes[k - 1].capa_level)
                => nodes[k].parent = k - 1

\* C4: a blank line is given the depth of the closest non-blank line before it
C4_BlankInheritsDepth ==
    root # 0 =>
        \A k \in 2..Len(nodes) :
            IsBlankItem(k)
                => nodes[k].capa_level
                     = nodes[MaxOf({j \in 1..(k - 1) : ~IsBlankItem(j)})].capa_level

\* the children the parent of description line k had when line k was reached
EarlierSiblings(k) ==
    {nodes[nodes[k].added_to].children[i] : i \in DOMAIN nodes[nodes[k].added_to].children}
        \cap 1..(k - 1)

\* where the text of description line k goes: the sibling added last for the
\* "description:" form if there is one, else the parent of the line
HoistTarget(k) ==
    IF StartsWith(nodes[k].text[1], "description:") /\ EarlierSiblings(k) # {}
    THEN MaxOf(EarlierSiblings(k))
    ELSE nodes[k].added_to

\* where it goes if both forms go to the sibling added last
SiblingTarget(k) ==
    IF EarlierSiblings(k) # {} THEN MaxOf(EarlierSiblings(k)) ELSE nodes[k].added_to

\* the text of description line k without its prefix
HoistedText(k) ==
    IF StartsWith(nodes[k].text[1], "description:")
    THEN LStrip(LStripChars(nodes[k].text[1], CharsOf("description:")))
    ELSE LStrip(LStripChars(nodes[k].text[1], CharsOf("- description:")))

DescriptionItems == {k \in DOMAIN nodes : IsDescriptionItem(k)}

DescriptionText(k) ==
    IF StartsWith(nodes[k].text[1], "description:")
    THEN Strip(From(nodes[k].text[1], Len("description:") + 1))
    ELSE Strip(From(nodes[k].text[1], Len("- description:") + 1))

\* C21: the description a hoisted line "description: X" or "- description: X"
\* leaves on its target is X without the white space around it, whatever X
\* is and with or without a space after the colon
C21_HoistedTextExact ==
    Loaded =>
        \A k \in DescriptionItems \ {1} :
            (\A j \in DescriptionItems : j > k => HoistTarget(j) # HoistTarget(k))
                => nodes[HoistTarget(k)].text[2] = DescriptionText(k)

\* the items of the tree, in the order of iterate_tree
TreeOrder == iterate_tree(nodes, top)

InTree(k) == \E i \in DOMAIN TreeOrder : TreeOrder[i] = k

\* the first line of the feature section that is not blank
FirstLine(text) == Head(SplitLines(Strip(Section(text))))

\* C15: a text without "features:", or with nothing but white space after it,
\* leaves the editor without root and without top-level item; any other text
\* leaves one top-level item, the root, which is the item of the first line
\* after the marker, and every other item made for a line that is no
\* description line is below the root
C15_RootingOfLoad ==
    /\ (Find(rule_text, "features:") = 0 \/ Strip(Section(rule_text)) = "")
          => root = 0 /\ top = <<>> /\ nodes = <<>>
    /\ root # 0 =>
          /\ top = <<root>>
          /\ nodes[root].parent = 0
          /\ root = 1
          /\ nodes[root].text[1] = parse_feature_for_node(Strip(FirstLine(rule_text)))[1]
          /\ \A k \in DOMAIN nodes : (k # root /\ ~IsDescriptionItem(k)) => InTree(k)

\* C16: build never raises
C16_BuildNeverFails == raised = ""

\* t occurs in s
Contains(s, t) == Find(s, t) # 0

\* the number of items above item o
Depth(o) == Len(AncestorsOf(o)) - 1

\* the lines of text after the line of its first "features:"
BodyLines(text) == SplitLines(From(text, Find(text, "features:") + Len("features:") + 1))

IsDescriptionLine(l) ==
    StartsWith(Strip(l), "description:") \/ StartsWith(Strip(l), "- description:")

\* line l has n leading spaces: exactly n before a feature text, and at
\* least n when the item has no feature text
LeadingSpaces(l, n, feature) ==
    /\ StartsWith(l, Spaces(n))
    /\ feature # "" => Indent(l) = n

\* the lines ls are those of the items os, in order: for each item a line
\* with 2 * depth + 4 leading spaces, and then possibly a description line
\* with 2 * depth + 6
RECURSIVE IndentedAsTree(_, _)
IndentedAsTree(os, ls) ==
    IF os = <<>> THEN ls = <<>>
    ELSE /\ ls # <<>>
         /\ LeadingSpaces(Head(ls), 2 * Depth(Head(os)) + 4, Strip(nodes[Head(os)].text[1]))
         /\ IF Len(ls) >= 2 /\ IsDescriptionLine(ls[2])
            THEN /\ Indent(ls[2]) = 2 * Depth(Head(os)) + 6
                 /\ IndentedAsTree(Tail(os), Tail(Tail(ls)))
            ELSE IndentedAsTree(Tail(os), Tail(ls))

\* C17: the text update_preview writes has, for every item of the tree in
\* the order of iterate_tree, its feature line with 2 * d + 4 leading spaces
\* and its description line, if it has one of its own, with 2 * d + 6, d
\* being the number of items above the item
C17_SerializerIndentation ==
    [][UpdatePreview => IndentedAsTree(TreeOrder, BodyLines(preview'))]_vars

\* the text before the tree in the text update_preview writes to the preview
\* that showed text: text up to the end of its first "features:" and a
\* newline, or text without its trailing white space and a line "  features:"
HeaderKept(text) ==
    IF Contains(text, "features:")
    THEN Sub(text, 1, Find(text, "features:") + Len("features:") - 1) \o "\n"
    ELSE RStrip(text) \o "\n" \o "  features:" \o "\n"

\* C18: update_preview keeps the head of the preview text, puts the rendered
\* tree after it, and writes the same text again when it runs once more on
\* the same tree
C18_HeaderAndIdempotence ==
    [][UpdatePreview =>
          /\ StartsWith(preview', HeaderKept(preview))
          /\ From(preview', Len(HeaderKept(preview)) + 1) = RenderItems(nodes, TreeOrder)
          /\ update_preview(nodes', top', preview') = preview']_vars

\* a preview without marker and with trailing white space, regenerated for a
\* loaded tree of two items
C18_Witness ==
    /\ preview = "rule:\n  meta:\n  features:\n    - or:\n      - and:\n"
    /\ Len(TreeOrder) = 2

\* C19: when build completes, every line after the first was handed to
\* add_node, every line that is no description line (and the first line) is
\* in the one tree exactly once, and iterate_tree gives the items in the
\* order of their lines
C19_LineConservation ==
    Loaded =>
        /\ top = <<1>>
        /\ \A k \in 2..Len(nodes) : nodes[k].added_to # 0
        /\ \A k \in DOMAIN nodes :
              (k = 1 \/ ~IsDescriptionItem(k))
                  => Cardinality({i \in DOMAIN TreeOrder : TreeOrder[i] = k}) = 1
        /\ \A i, j \in DOMAIN TreeOrder : i < j => TreeOrder[i] < TreeOrder[j]

\* a text of four lines with a description line, a line deeper and a line
\* less deep than the line before it, all lines but the description in the tree
C19_Witness ==
    /\ Loaded
    /\ Len(nodes) = 4
    /\ Len(TreeOrder) = 3
    /\ \E k \in 2..Len(nodes) : IsDescriptionItem(k)
    /\ \E k \in 3..Len(nodes) : nodes[k].capa_level < nodes[k - 1].capa_level
    /\ \E k \in 3..Len(nodes) : nodes[k].capa_level > nodes[k - 1].capa_level

----------------------------------------------------------------------------
(* Properties of the edited tree *)

\* C6: in the tree a load or an edit leaves, an item that is a feature or a
\* comment has no child
C6_LeavesHaveNoChildren ==
    raised = "" =>
        \A i \in DOMAIN iterate_tree(nodes, top) :
            nodes[iterate_tree(nodes, top)[i]].capa_type # get_node_type_expression
                => nodes[iterate_tree(nodes, top)[i]].children = <<>>

----------------------------------------------------------------------------
(* Properties of single lines *)

\* C7: a line "- count(<name>(<value> = <description>)): <count> # <comment>"
\* is parsed to the feature "- count(<name>(<value>)): <count>", its description
\* and its comment, and serialized back to the same line at the item's depth,
\* or, when <name> is string, to the feature line and a line "description:
\* <description>" two spaces deeper
C7_CountSymmetry ==
    template # NoTemplate =>
        /\ parsed # <<>> =>
              parsed = << "- count(" \o template.name \o "(" \o template.value \o ")): "
                             \o template.count,
                          template.description, template.comment >>
        /\ display_text # "" =>
              display_text
                = IF template.name = "string"
                  THEN Spaces(2 * item_depth + 4) \o "- count(string(" \o template.value \o ")): "
                         \o template.count
                         \o (IF template.comment # "" THEN " # " \o template.comment ELSE "")
                         \o "\n" \o Spaces(2 * item_depth + 6) \o "description: "
                         \o template.description \o "\n"
                  ELSE Spaces(2 * item_depth + 4) \o feature_line \o "\n"

\* a count of strings with a comment, serialized below the top level
C7_Witness ==
    /\ template # NoTemplate
    /\ template.name = "string"
    /\ template.comment = "note"
    /\ item_depth = 1
    /\ display_text # ""

\* the line split at its first "#"
BeforeComment(l) == IF Find(l, "#") = 0 THEN l ELSE Sub(l, 1, Find(l, "#") - 1)
AfterComment(l) == IF Find(l, "#") = 0 THEN "" ELSE From(l, Find(l, "#") + 1)

C20_NoTextLost ==
    (display_text # "" /\ ~StartsWith(parsed[1], "#")) =>
        /\ IF StartsWith(parsed[1], "- count") /\ CountMatch(parsed[1]) # <<>>
           THEN \A i \in 1..3 : Contains(display_text, CountMatch(parsed[1])[i])
           ELSE Contains(display_text, parsed[1])
        /\ Contains(display_text, parsed[2])
        /\ Contains(display_text, parsed[3])

----------------------------------------------------------------------------
(* Properties of the flattener and of the overlap detector *)

\* the statement reached from st along path, a sequence of child positions
\* (position 1 for the child of Not, Subscope and Range); NoStatement when
\* the path leaves the tree
RECURSIVE StatementAt(_, _)
StatementAt(st, path) ==
    IF path = <<>> THEN st
    ELSE IF st.kind \in Combinators
    THEN IF Head(path) \in DOMAIN st.children
         THEN StatementAt(st.children[Head(path)], Tail(path))
         ELSE NoStatement
    ELSE IF st.kind \in Wrappers /\ Head(path) = 1 THEN StatementAt(st.child, Tail(path))
    ELSE NoStatement

\* the paths of st that end at a feature
LeafPaths(st) ==
    {path \in SeqsUpTo(1..(MaxChildren + 1), MaxTreeDepth + 1) :
        StatementAt(st, path).kind \notin Combinators \cup Wrappers}

\* p stands left of q in the tree
LeftOf(p, q) ==
    \E i \in 1..MinOf({Len(p), Len(q)}) :
        /\ p[i] < q[i]
        /\ \A j \in 1..(i - 1) : p[j] = q[j]

\* C9: get_child_features returns the features at the leaves of the statement
\* from left to right, one for each leaf and none twice for one leaf
C9_Flattening ==
    returned = "get_child_features" =>
        /\ Len(flat_features) = Cardinality(LeafPaths(statement))
        /\ \A p \in LeafPaths(statement) :
              flat_features[1 + Cardinality({q \in LeafPaths(statement) : LeftOf(q, p)})]
                = StatementAt(statement, p)

\* a statement of two levels with a feature twice, below Not and below Or
C9_Witness ==
    /\ returned = "get_child_features"
    /\ statement = Combinator("And", << Wrapper("Not", Feature("mutex: foo")),
                                       Combinator("Or", << Feature("mutex: foo"),
                                                          Feature("api: CreateFileA") >>) >>)
    /\ flat_features = << Feature("mutex: foo"), Feature("mutex: foo"), Feature("api: CreateFileA") >>

\* the features at the leaves of st
LeafSet(st) == {StatementAt(st, p) : p \in LeafPaths(st)}

\* C10: the rules find_overlapping_rules lists are the rules of the rule set
\* whose leaf features meet those of the new rule, each listed once
C10_OverlapIffIntersect ==
    (returned = "find_overlapping_rules" /\ error = "") =>
        /\ \A i \in DOMAIN ruleset :
              (\E j \in DOMAIN result.overlapping_rules :
                    result.overlapping_rules[j] = ruleset[i][1])
                <=> LeafSet(ruleset[i][2]) \cap LeafSet(new_rule_file.statement) # {}
        /\ \A i, j \in DOMAIN result.overlapping_rules :
              result.overlapping_rules[i] = result.overlapping_rules[j] => i = j
        /\ \A j \in DOMAIN result.overlapping_rules :
              \E i \in DOMAIN ruleset : ruleset[i][1] = result.overlapping_rules[j]

\* new = {mutex foo, api CreateFileA}, X = {api CreateFileA}, Y = {api WriteFile}
C10_Witness ==
    /\ returned = "find_overlapping_rules"
    /\ error = ""
    /\ LeafSet(new_rule_file.statement) = {Feature("mutex: foo"), Feature("api: CreateFileA")}
    /\ ruleset = << <<"X", Feature("api: CreateFileA")>>, <<"Y", Feature("api: WriteFile")>> >>
    /\ result.overlapping_rules = <<"X">>

\* the names find_overlapping_rules lists
Overlapping == {result.overlapping_rules[j] : j \in DOMAIN result.overlapping_rules}

\* the rules of the loaded rule set with at least one leaf feature
WithFeatures == {i \in DOMAIN ruleset : LeafPaths(ruleset[i][2]) # {}}

\* C11: the count find_overlapping_rules returns is the number of rules of the
\* rule set with at least one leaf feature; a rule without leaf features is
\* not listed as overlapping; the count is the one returned for a new rule
\* without any feature
C11_CheckedCount ==
    (returned = "find_overlapping_rules" /\ error = "") =>
        /\ result.count = Cardinality(WithFeatures)
        /\ \A i \in DOMAIN ruleset : i \notin WithFeatures => ruleset[i][1] \notin Overlapping
        /\ result.count
             = find_overlapping_rules(new_rule_path, RuleFile(TRUE, NoStatement), rules_path).result.count

\* a rule without features before a rule that overlaps: one rule counted
C11_Witness ==
    /\ returned = "find_overlapping_rules"
    /\ error = ""
    /\ ruleset = << <<"X", Combinator("Or", <<>>)>>, <<"Y", Feature("mutex: foo")>> >>
    /\ new_rule_file.statement = Feature("mutex: foo")
    /\ result = [overlapping_rules |-> <<"Y">>, count |-> 1]

\* C12: for a path of the new rule that does not end in .yml,
\* find_overlapping_rules raises FileNotFoundError, has opened no file, has
\* loaded no rule and returns nothing
C12_SuffixGuard ==
    (returned = "find_overlapping_rules" /\ ~EndsWith(new_rule_path, ".yml")) =>
        /\ error = "FileNotFoundError"
        /\ io = <<>>
        /\ ruleset = <<>>
        /\ warnings = <<>>
        /\ result = NoResult

\* new.yaml, a new rule that would not parse and a candidate that would
C12_Witness ==
    /\ returned = "find_overlapping_rules"
    /\ new_rule_path = "new.yaml"
    /\ ~new_rule_file.parses
    /\ rules_path = << <<"X", RuleFile(TRUE, Feature("mutex: foo"))>> >>
    /\ error = "FileNotFoundError"

\* the candidates that parse, as rules, in the order of rules_path
Parsing == SelectSeq(rules_path, LAMBDA c : c[2].parses)

ListedOneWay(i) == ruleset[i][1] \in Overlapping

\* A is listed when rule B of the rule set is the new rule and A the only candidate
ListedOtherWay(i) ==
    find_overlapping_rules("new.yml", RuleFile(TRUE, ruleset[i][2]),
                           << <<"A", new_rule_file>> >>).result.overlapping_rules = <<"A">>

\* C14: a rule of the rule set is listed as overlapping the new rule exactly
\* when the new rule is listed with the two rules exchanged; a rule without
\* leaf features is listed in neither direction
C14_OverlapCommutes ==
    (returned = "find_overlapping_rules" /\ error = "") =>
        \A i \in DOMAIN ruleset :
            /\ ListedOneWay(i) <=> ListedOtherWay(i)
            /\ (LeafPaths(ruleset[i][2]) = {} \/ LeafPaths(new_rule_file.statement) = {})
                  => ~ListedOneWay(i) /\ ~ListedOtherWay(i)

\* the new rule has two features and X one of them; Y has no feature
C14_Witness ==
    /\ returned = "find_overlapping_rules"
    /\ error = ""
    /\ new_rule_file.statement
         = Combinator("And", <<Feature("mutex: foo"), Wrapper("Not", Feature("api: WriteFile"))>>)
    /\ ruleset = << <<"X", Feature("api: WriteFile")>>, <<"Y", Combinator("Or", <<>>)>> >>
    /\ ListedOneWay(1)
    /\ ListedOtherWay(1)

====
